---------------------------- MODULE Spec2Model ----------------------------
(***************************************************************************)
(* Model of pkg/cmd/attestation/verify/policy.go: construction of the      *)
(* attestation trust policy from user options (newPolicy and its helpers)  *)
(* and evaluation of verified certificate extensions against that policy   *)
(* (VerifyCertExtensions, verifyCertExtensions).                           *)
(*                                                                         *)
(* Go strings are sequences of one-character strings, so that prefix       *)
(* tests, case folding and the host regular expression are computed        *)
(* character by character.  fmt.Sprintf with %s verbs is concatenation.    *)
(***************************************************************************)
EXTENDS Naturals, Sequences, FiniteSets

VARIABLES
    opts,      \* *Options handed to newPolicy / validateSignerWorkflow
    p,         \* the Policy value (result of newPolicy, receiver of the methods)
    err,       \* error returned by newPolicy
    wf,        \* (string, error) returned by a direct validateSignerWorkflow call
    certExt,   \* certificate.Extensions built by buildCertificateIdentityOption
    results,   \* the processing results handed to VerifyCertExtensions
    ret,       \* error returned by VerifyCertExtensions
    pc         \* position of the caller: start, built, failed, verified, ...

vars == <<opts, p, err, wf, certExt, results, ret, pc>>

---------------------------------------------------------------------------
(* Bounds of the model.                                                    *)

\* longest results list handed to VerifyCertExtensions
MaxResults == 2

\* longest signer-workflow string enumerated exhaustively
MaxWorkflowLen == 4

---------------------------------------------------------------------------
(* Strings.                                                                *)

Empty == <<>>

LowerLetters ==
    <<"a","b","c","d","e","f","g","h","i","j","k","l","m",
      "n","o","p","q","r","s","t","u","v","w","x","y","z">>

UpperLetters ==
    <<"A","B","C","D","E","F","G","H","I","J","K","L","M",
      "N","O","P","Q","R","S","T","U","V","W","X","Y","Z">>

Digits == {"0","1","2","3","4","5","6","7","8","9"}

Range(s) == {s[i] : i \in 1..Len(s)}

\* unicode.SimpleFold restricted to ASCII: the two cases of a letter fold
\* together, every other character folds to itself
FoldTable == [c \in Range(UpperLetters) |->
                 LowerLetters[CHOOSE i \in 1..26 : UpperLetters[i] = c]]

FoldChar(c) == IF c \in DOMAIN FoldTable THEN FoldTable[c] ELSE c

\* strings.EqualFold
EqualFold(s, t) ==
    /\ Len(s) = Len(t)
    /\ \A i \in 1..Len(s) : FoldChar(s[i]) = FoldChar(t[i])

\* strings.Index(s, sub) == 0: sub is a (case-sensitive) prefix of s
IndexIsZero(s, sub) ==
    /\ Len(sub) <= Len(s)
    /\ \A i \in 1..Len(sub) : s[i] = sub[i]

---------------------------------------------------------------------------
(* Constants and templates of the source.                                  *)

GitHubRunner == <<"g","i","t","h","u","b","-","h","o","s","t","e","d">>

Wildcard == <<"*">>

\* "https://github.com/%s"
GitHubURL(x) ==
    <<"h","t","t","p","s",":","/","/","g","i","t","h","u","b",".","c","o","m","/">> \o x

\* "https://%s.ghe.com/%s"
TenantURL(tenant, x) ==
    <<"h","t","t","p","s",":","/","/">> \o tenant
        \o <<".","g","h","e",".","c","o","m","/">> \o x

\* verification.GitHubTenantOIDCIssuer, "https://token.actions.%s.ghe.com"
GitHubTenantOIDCIssuer(tenant) ==
    <<"h","t","t","p","s",":","/","/","t","o","k","e","n",".",
      "a","c","t","i","o","n","s",".">> \o tenant
        \o <<".","g","h","e",".","c","o","m">>

\* expandToGitHubURL
expandToGitHubURL(tenant, ownerOrRepo) ==
    IF tenant = Empty
    THEN <<"(","?","i",")","^">> \o GitHubURL(ownerOrRepo) \o <<"/">>
    ELSE <<"(","?","i",")","^">> \o TenantURL(tenant, ownerOrRepo) \o <<"/">>

---------------------------------------------------------------------------
(* validateSignerWorkflow.                                                 *)

NoError == "nil"

ErrUnknownHost == "unknown host"

\* the character class [a-zA-Z0-9-]
HostChars == Range(LowerLetters) \cup Range(UpperLetters) \cup Digits \cup {"-"}

IsHostChar(c) == c \in HostChars

\* regexp.MatchString(hostRegex, s), hostRegex = ^[a-zA-Z0-9-]+\.[a-zA-Z0-9-]+.*$
\* s[1..i] is the first token, s[i+1] the dot, s[i+2..j] the second token;
\* '.' matches any character but the line feed and '$' only the end of text
MatchHostRegex(s) ==
    \E i \in 1..Len(s), j \in 1..Len(s) :
        /\ i + 2 <= j
        /\ \A k \in 1..i : IsHostChar(s[k])
        /\ s[i + 1] = "."
        /\ \A k \in (i + 2)..j : IsHostChar(s[k])
        /\ \A k \in (j + 1)..Len(s) : s[k] /= "\n"

\* validateSignerWorkflow
validateSignerWorkflow(o) ==
    IF MatchHostRegex(o.SignerWorkflow)
    THEN [val |-> <<"^","h","t","t","p","s",":","/","/">> \o o.SignerWorkflow,
          err |-> NoError]
    ELSE IF o.Hostname = Empty
    THEN [val |-> Empty, err |-> ErrUnknownHost]
    ELSE [val |-> <<"^","h","t","t","p","s",":","/","/">> \o o.Hostname
                      \o <<"/">> \o o.SignerWorkflow,
          err |-> NoError]

---------------------------------------------------------------------------
(* newPolicy, stage by stage.                                              *)

ZeroExtensions ==
    [RunnerEnvironment        |-> Empty,
     SANRegex                 |-> Empty,
     SAN                      |-> Empty,
     BuildSourceRepoURI       |-> Empty,
     SignerWorkflow           |-> Empty,
     SourceRepositoryOwnerURI |-> Empty,
     SourceRepositoryURI      |-> Empty]

NoArtifact == "no artifact"

\* Policy{}
ZeroPolicy ==
    [Extensions    |-> ZeroExtensions,
     PredicateType |-> Empty,
     Artifact      |-> NoArtifact,
     OIDCIssuer    |-> Empty]

\* mutant: the caller's SAN options are read in every mode
SANResolutionFallthrough(o) ==
    IF o.SignerRepo /= Empty
    THEN [SANRegex |-> expandToGitHubURL(o.Tenant, o.SignerRepo),
          SAN |-> o.SAN, err |-> NoError]
    ELSE IF o.SignerWorkflow /= Empty
    THEN LET v == validateSignerWorkflow(o)
         IN  [SANRegex |-> v.val, SAN |-> o.SAN, err |-> v.err]
    ELSE [SANRegex |-> o.SANRegex, SAN |-> o.SAN, err |-> NoError]

\* the SAN block of newPolicy: the SANRegex and SAN it assigns, and its error
SANResolution(o) ==
    IF o.SignerRepo /= Empty
    THEN [SANRegex |-> expandToGitHubURL(o.Tenant, o.SignerRepo),
          SAN |-> Empty, err |-> NoError]
    ELSE IF o.SignerWorkflow /= Empty
    THEN LET v == validateSignerWorkflow(o)
         IN  [SANRegex |-> v.val, SAN |-> Empty, err |-> v.err]
    ELSE [SANRegex |-> o.SANRegex, SAN |-> o.SAN, err |-> NoError]

\* mutant: nothing is assigned when self-hosted runners are allowed
RunnerEnvironmentUnset(o) ==
    IF o.DenySelfHostedRunner THEN GitHubRunner ELSE Empty

\* the runner block of newPolicy
RunnerEnvironmentOf(o) ==
    IF o.DenySelfHostedRunner THEN GitHubRunner ELSE Wildcard

\* mutant: the public form is the else branch of the tenant test
BuildSourceRepoURITenantAware(o) ==
    IF o.Repo /= Empty
    THEN IF o.Tenant /= Empty
         THEN TenantURL(o.Tenant, o.Repo)
         ELSE GitHubURL(o.Repo)
    ELSE Empty

\* the build-source-repo block of newPolicy: the tenant form is assigned and
\* then overwritten by the public form
BuildSourceRepoURIOf(o) ==
    IF o.Repo /= Empty
    THEN LET first == IF o.Tenant /= Empty
                      THEN TenantURL(o.Tenant, o.Repo)
                      ELSE Empty
             second == GitHubURL(o.Repo)
         IN  second
    ELSE Empty

\* mutant: no owner constraint without an owner
SourceRepositoryOwnerURIOptional(o) ==
    IF o.Owner = Empty
    THEN Empty
    ELSE IF o.Tenant /= Empty
         THEN TenantURL(o.Tenant, o.Owner)
         ELSE GitHubURL(o.Owner)

\* the owner block of newPolicy
SourceRepositoryOwnerURIOf(o) ==
    IF o.Tenant /= Empty
    THEN TenantURL(o.Tenant, o.Owner)
    ELSE GitHubURL(o.Owner)

\* mutant: a caller-supplied issuer wins over the tenant default
OIDCIssuerCallerFirst(o) ==
    IF o.OIDCIssuer /= Empty
    THEN o.OIDCIssuer
    ELSE IF o.Tenant /= Empty
         THEN GitHubTenantOIDCIssuer(o.Tenant)
         ELSE Empty

\* the issuer block of newPolicy
OIDCIssuerOf(o) ==
    IF o.Tenant /= Empty
    THEN GitHubTenantOIDCIssuer(o.Tenant)
    ELSE o.OIDCIssuer

\* newPolicy(opts, a): the (Policy, error) pair it returns
newPolicy(o, a) ==
    LET san == SANResolution(o)
    IN  IF san.err /= NoError
        THEN [policy |-> ZeroPolicy, err |-> san.err]
        ELSE [policy |->
                [Extensions |->
                    [RunnerEnvironment        |-> RunnerEnvironmentOf(o),
                     SANRegex                 |-> san.SANRegex,
                     SAN                      |-> san.SAN,
                     BuildSourceRepoURI       |-> BuildSourceRepoURIOf(o),
                     SignerWorkflow           |-> Empty,
                     SourceRepositoryOwnerURI |-> SourceRepositoryOwnerURIOf(o),
                     SourceRepositoryURI      |-> Empty],
                 PredicateType |-> Empty,
                 Artifact      |-> a,
                 OIDCIssuer    |-> OIDCIssuerOf(o)],
              err |-> NoError]

---------------------------------------------------------------------------
(* buildCertificateIdentityOption: the certificate.Extensions it requires. *)

\* certificate.Extensions{RunnerEnvironment: p.Extensions.RunnerEnvironment}
buildCertificateIdentityOption(pol) ==
    [RunnerEnvironment |-> pol.Extensions.RunnerEnvironment]

---------------------------------------------------------------------------
(* verifyCertExtensions and VerifyCertExtensions.                          *)

\* an error value: its kind and the two values its message is formatted with
Error(kind, expected, got) == [kind |-> kind, expected |-> expected, got |-> got]

Nil == Error("nil", Empty, Empty)

ErrNoResults == Error("no attestations proccessing results", Empty, Empty)

ErrNoAttestationsVerified == Error("no attestations verified", Empty, Empty)

\* mutant: the tenant-subpath test forgets the "/" separator
issuerCheckNoSlash(pol, cert) ==
    IF pol.OIDCIssuer /= Empty /\ ~EqualFold(pol.OIDCIssuer, cert.Issuer)
    THEN IF IndexIsZero(cert.Issuer, pol.OIDCIssuer)
         THEN Error("Issuer, use --cert-oidc-issuer", pol.OIDCIssuer, cert.Issuer)
         ELSE Error("Issuer", pol.OIDCIssuer, cert.Issuer)
    ELSE Nil

\* the issuer block of verifyCertExtensions
issuerCheck(pol, cert) ==
    IF pol.OIDCIssuer /= Empty /\ ~EqualFold(pol.OIDCIssuer, cert.Issuer)
    THEN IF IndexIsZero(cert.Issuer, pol.OIDCIssuer \o <<"/">>)
         THEN Error("Issuer, use --cert-oidc-issuer", pol.OIDCIssuer, cert.Issuer)
         ELSE Error("Issuer", pol.OIDCIssuer, cert.Issuer)
    ELSE Nil

\* verifyCertExtensions: cert is the Certificate.Extensions of one result
verifyCertExtensions(pol, cert) ==
    IF /\ pol.Extensions.SourceRepositoryOwnerURI /= Empty
       /\ ~EqualFold(pol.Extensions.SourceRepositoryOwnerURI,
                     cert.SourceRepositoryOwnerURI)
    THEN Error("SourceRepositoryOwnerURI",
               pol.Extensions.SourceRepositoryOwnerURI, cert.SourceRepositoryOwnerURI)
    ELSE IF /\ pol.Extensions.SourceRepositoryURI /= Empty
            /\ ~EqualFold(pol.Extensions.SourceRepositoryURI, cert.SourceRepositoryURI)
    THEN Error("SourceRepositoryURI",
               pol.Extensions.SourceRepositoryURI, cert.SourceRepositoryURI)
    ELSE issuerCheck(pol, cert)

\* the range loop of VerifyCertExtensions from index i on; the value is the
\* error returned from inside the loop, or Nil with the flag the loop leaves
RECURSIVE verifyLoop(_, _, _, _)
verifyLoop(pol, rs, i, atLeastOneVerified) ==
    IF i > Len(rs)
    THEN [err |-> Nil, atLeastOneVerified |-> atLeastOneVerified]
    ELSE LET e == verifyCertExtensions(pol, rs[i])
         IN  IF e /= Nil
             THEN [err |-> e, atLeastOneVerified |-> atLeastOneVerified]
             ELSE verifyLoop(pol, rs, i + 1, TRUE)

\* mutant: no length test before the loop
VerifyCertExtensionsNoLengthTest(pol, rs) ==
    LET l == verifyLoop(pol, rs, 1, FALSE)
    IN  IF l.err /= Nil THEN l.err
        ELSE IF l.atLeastOneVerified THEN Nil
        ELSE ErrNoAttestationsVerified

\* the errors of all results, in list order
RECURSIVE collectErrors(_, _, _)
collectErrors(pol, rs, i) ==
    IF i > Len(rs)
    THEN <<>>
    ELSE LET e == verifyCertExtensions(pol, rs[i])
         IN  (IF e /= Nil THEN <<e>> ELSE <<>>) \o collectErrors(pol, rs, i + 1)

\* mutant: the loop goes on after a failure and the last error is returned
VerifyCertExtensionsLastError(pol, rs) ==
    IF Len(rs) = 0
    THEN ErrNoResults
    ELSE LET es == collectErrors(pol, rs, 1)
         IN  IF es = <<>> THEN Nil ELSE es[Len(es)]

\* VerifyCertExtensions
VerifyCertExtensions(pol, rs) ==
    IF Len(rs) = 0
    THEN ErrNoResults
    ELSE LET l == verifyLoop(pol, rs, 1, FALSE)
         IN  IF l.err /= Nil THEN l.err
             ELSE IF l.atLeastOneVerified THEN Nil
             ELSE ErrNoAttestationsVerified

---------------------------------------------------------------------------
(* Inputs.                                                                 *)

SeqsUpTo(S, n) == UNION {[1..k -> S] : k \in 0..n}

\* the other case of a letter, any other character unchanged
UnfoldTable == [c \in Range(LowerLetters) |->
                   UpperLetters[CHOOSE i \in 1..26 : LowerLetters[i] = c]]

SwapChar(c) ==
    IF c \in DOMAIN FoldTable THEN FoldTable[c]
    ELSE IF c \in DOMAIN UnfoldTable THEN UnfoldTable[c]
    ELSE c

SwapCase(s) == [i \in 1..Len(s) |-> SwapChar(s[i])]

TheArtifact == "artifact"

\* signer workflows: none, with a host, without a host, with a host and a
\* line feed
SampleWorkflows ==
    {Empty,
     <<"h",".","c","/","o","/","r","/","w">>,
     <<"o","/","r","/","w">>,
     <<"h",".","c","/","w","\n">>}

SampleOptions ==
    [SignerRepo           : {Empty, <<"o","/","r">>},
     SignerWorkflow       : SampleWorkflows,
     SAN                  : {Empty, <<"s">>},
     SANRegex             : {Empty, <<"x">>},
     DenySelfHostedRunner : BOOLEAN,
     Repo                 : {Empty, <<"o","/","r">>},
     Tenant               : {Empty, <<"t">>},
     Owner                : {Empty, <<"o">>},
     Hostname             : {Empty, <<"h",".","c">>},
     OIDCIssuer           : {Empty, <<"i">>}]

WorkflowAlphabet == {"w", "-", ".", "/", "\n"}

\* every signer workflow up to the bound, with the options that
\* validateSignerWorkflow and the SAN block read
WorkflowOptions ==
    [SignerRepo           : {Empty, <<"o","/","r">>},
     SignerWorkflow       : SeqsUpTo(WorkflowAlphabet, MaxWorkflowLen),
     SAN                  : {<<"s">>},
     SANRegex             : {<<"x">>},
     DenySelfHostedRunner : {FALSE},
     Repo                 : {Empty},
     Tenant               : {Empty, <<"t">>},
     Owner                : {<<"o">>},
     Hostname             : {Empty, <<"h",".","c">>},
     OIDCIssuer           : {Empty}]

\* policies with every combination of populated and empty constraints
PolicySet ==
    {[Extensions |->
         [ZeroExtensions EXCEPT !.RunnerEnvironment = Wildcard,
                                !.SourceRepositoryOwnerURI = o,
                                !.SourceRepositoryURI = r],
      PredicateType |-> Empty,
      Artifact      |-> TheArtifact,
      OIDCIssuer    |-> i] :
        o \in {Empty, <<"o">>, <<"O">>},
        r \in {Empty, <<"r">>},
        i \in {Empty, <<"i">>, <<"I">>}}

\* certificate extensions of a result: matching in either case, not matching,
\* and issuers below the expected one
CertSet ==
    [SourceRepositoryOwnerURI : {<<"O">>, <<"p">>},
     SourceRepositoryURI      : {<<"R">>, <<"q">>},
     Issuer                   : {<<"i">>, <<"i","/","e">>, <<"I","/","e">>, <<"i","e">>}]

\* certificate extensions a verifier may report for a policy built by newPolicy
CertsFor(pol) ==
    [SourceRepositoryOwnerURI : {SwapCase(pol.Extensions.SourceRepositoryOwnerURI),
                                 GitHubURL(<<"z">>)},
     SourceRepositoryURI      : {GitHubURL(<<"o","/","r">>), GitHubURL(<<"z","/","z">>)},
     Issuer                   : {SwapCase(pol.OIDCIssuer)}]

---------------------------------------------------------------------------
(* The state machine.                                                      *)

\* Options{}
ZeroOptions ==
    [SignerRepo           |-> Empty,
     SignerWorkflow       |-> Empty,
     SAN                  |-> Empty,
     SANRegex             |-> Empty,
     DenySelfHostedRunner |-> FALSE,
     Repo                 |-> Empty,
     Tenant               |-> Empty,
     Owner                |-> Empty,
     Hostname             |-> Empty,
     OIDCIssuer           |-> Empty]

NoWorkflow == [val |-> Empty, err |-> NoError]

NoExtensions == [RunnerEnvironment |-> Empty]

InitWith(O) ==
    /\ opts \in O
    /\ p = ZeroPolicy
    /\ err = NoError
    /\ wf = NoWorkflow
    /\ certExt = NoExtensions
    /\ results = <<>>
    /\ ret = Nil
    /\ pc = "start"

\* newPolicy(opts, a)
NewPolicyCall ==
    /\ pc = "start"
    /\ LET r == newPolicy(opts, TheArtifact)
       IN  /\ p' = r.policy
           /\ err' = r.err
           /\ pc' = IF r.err = NoError THEN "built" ELSE "failed"
    /\ UNCHANGED <<opts, wf, certExt, results, ret>>

\* validateSignerWorkflow(opts)
ValidateSignerWorkflowCall ==
    /\ pc = "start"
    /\ wf' = validateSignerWorkflow(opts)
    /\ pc' = "validated"
    /\ UNCHANGED <<opts, p, err, certExt, results, ret>>

\* p.buildCertificateIdentityOption()
BuildCertificateIdentityOptionCall ==
    /\ pc = "built"
    /\ certExt' = buildCertificateIdentityOption(p)
    /\ pc' = "identity"
    /\ UNCHANGED <<opts, p, err, wf, results, ret>>

\* p.VerifyCertExtensions(rs) for a list rs of results drawn from C
VerifyCertExtensionsOn(C) ==
    /\ pc = "identity"
    /\ \E rs \in SeqsUpTo(C, MaxResults) :
        /\ results' = rs
        /\ ret' = VerifyCertExtensions(p, rs)
    /\ pc' = "verified"
    /\ UNCHANGED <<opts, p, err, wf, certExt>>

VerifyBuiltPolicy == VerifyCertExtensionsOn(CertsFor(p))

VerifyAnyPolicy == VerifyCertExtensionsOn(CertSet)

\* options -> newPolicy -> buildCertificateIdentityOption -> VerifyCertExtensions
Init == InitWith(SampleOptions)

Next ==
    \/ NewPolicyCall
    \/ BuildCertificateIdentityOptionCall
    \/ VerifyBuiltPolicy

Spec == Init /\ [][Next]_vars

\* newPolicy and validateSignerWorkflow over every signer workflow
InitWorkflow == InitWith(WorkflowOptions)

NextWorkflow ==
    \/ NewPolicyCall
    \/ ValidateSignerWorkflowCall

SpecWorkflow == InitWorkflow /\ [][NextWorkflow]_vars

\* VerifyCertExtensions on arbitrary policies
InitEval ==
    /\ opts = ZeroOptions
    /\ p \in PolicySet
    /\ err = NoError
    /\ wf = NoWorkflow
    /\ certExt = buildCertificateIdentityOption(p)
    /\ results = <<>>
    /\ ret = Nil
    /\ pc = "identity"

NextEval == VerifyAnyPolicy

SpecEval == InitEval /\ [][NextEval]_vars

---------------------------------------------------------------------------
(* Vocabulary of the properties.                                           *)

ToLower(s) == [i \in 1..Len(s) |-> FoldChar(s[i])]

CaseInsensitiveEqual(s, t) == ToLower(s) = ToLower(t)

StartsWith(s, prefix) ==
    /\ Len(prefix) <= Len(s)
    /\ SubSeq(s, 1, Len(prefix)) = prefix

Contains(s, sub) ==
    \E k \in 0..Len(s) :
        /\ k + Len(sub) <= Len(s)
        /\ SubSeq(s, k + 1, k + Len(sub)) = sub

\* a populated constraint must match the observed value, an empty one is free
Constrains(expected, observed) ==
    expected /= Empty /\ ~CaseInsensitiveEqual(expected, observed)

OwnerFails(pol, c) ==
    Constrains(pol.Extensions.SourceRepositoryOwnerURI, c.SourceRepositoryOwnerURI)

RepoFails(pol, c) ==
    Constrains(pol.Extensions.SourceRepositoryURI, c.SourceRepositoryURI)

IssuerFails(pol, c) == Constrains(pol.OIDCIssuer, c.Issuer)

Satisfies(pol, c) ==
    ~OwnerFails(pol, c) /\ ~RepoFails(pol, c) /\ ~IssuerFails(pol, c)

IssuerKinds == {"Issuer", "Issuer, use --cert-oidc-issuer"}

Built == pc \in {"built", "identity", "verified"}

---------------------------------------------------------------------------
(* C1: VerifyCertExtensions succeeds exactly when the list is non-empty    *)
(* and every result satisfies every populated constraint; otherwise, for a *)
(* non-empty list, it returns the error of the first failing check, going  *)
(* through the results in list order and, within a result, owner URI, then *)
(* repository URI, then issuer; the results after the first failing one do *)
(* not influence the error.                                                *)
C1_FirstFailingCheck ==
    pc = "verified" =>
        /\ ret = Nil <=>
              (results /= <<>> /\ \A k \in 1..Len(results) : Satisfies(p, results[k]))
        /\ \A k \in 1..Len(results) :
              (/\ ~Satisfies(p, results[k])
               /\ \A j \in 1..(k - 1) : Satisfies(p, results[j]))
              => /\ IF OwnerFails(p, results[k])
                    THEN ret = Error("SourceRepositoryOwnerURI",
                                     p.Extensions.SourceRepositoryOwnerURI,
                                     results[k].SourceRepositoryOwnerURI)
                    ELSE IF RepoFails(p, results[k])
                    THEN ret = Error("SourceRepositoryURI",
                                     p.Extensions.SourceRepositoryURI,
                                     results[k].SourceRepositoryURI)
                    ELSE /\ ret.kind \in IssuerKinds
                         /\ ret.expected = p.OIDCIssuer
                         /\ ret.got = results[k].Issuer
                 /\ \A c \in CertSet, j \in (k + 1)..Len(results) :
                       VerifyCertExtensions(p, [results EXCEPT ![j] = c]) = ret

\* the first result fails the repository check only and the second one would
\* fail with a different error
C1_Witness ==
    /\ pc = "verified"
    /\ Len(results) = 2
    /\ ~OwnerFails(p, results[1])
    /\ RepoFails(p, results[1])
    /\ OwnerFails(p, results[2])
    /\ ret.kind = "SourceRepositoryURI"

---------------------------------------------------------------------------
(* C3: when the expected issuer is set and the observed issuer differs     *)
(* from it, the issuer check fails with the --cert-oidc-issuer remediation *)
(* error exactly when the observed issuer starts with expected + "/", and  *)
(* with the generic issuer error in every other mismatch; equal issuers or *)
(* an empty expected issuer produce no issuer error.  The issuer check is  *)
(* the last of a result, so it speaks when owner and repository pass.      *)
C3_IssuerErrors ==
    \A k \in 1..Len(results) :
        LET c == results[k]
            e == IF Len(results) = 1 /\ pc = "verified"
                 THEN ret
                 ELSE verifyCertExtensions(p, c)
            reached == ~OwnerFails(p, c) /\ ~RepoFails(p, c)
        IN  /\ (reached /\ IssuerFails(p, c)
                    /\ StartsWith(c.Issuer, p.OIDCIssuer \o <<"/">>))
                => e = Error("Issuer, use --cert-oidc-issuer", p.OIDCIssuer, c.Issuer)
            /\ (reached /\ IssuerFails(p, c)
                    /\ ~StartsWith(c.Issuer, p.OIDCIssuer \o <<"/">>))
                => e = Error("Issuer", p.OIDCIssuer, c.Issuer)
            /\ ~IssuerFails(p, c) => e.kind \notin IssuerKinds
            /\ ~reached => e.kind \notin IssuerKinds

\* one result whose issuer lies below the expected one
C3_Witness ==
    /\ pc = "verified"
    /\ Len(results) = 1
    /\ StartsWith(results[1].Issuer, p.OIDCIssuer \o <<"/">>)
    /\ ret = Error("Issuer, use --cert-oidc-issuer", p.OIDCIssuer, results[1].Issuer)

---------------------------------------------------------------------------
(* Inputs that differ from given ones in letter case only.                 *)

CaseVariants(s) == {s, SwapCase(s), ToLower(s)}

PolicyCaseVariants(pol) ==
    {[pol EXCEPT !.Extensions.SourceRepositoryOwnerURI = o,
                 !.Extensions.SourceRepositoryURI = r,
                 !.OIDCIssuer = i] :
        o \in CaseVariants(pol.Extensions.SourceRepositoryOwnerURI),
        r \in CaseVariants(pol.Extensions.SourceRepositoryURI),
        i \in CaseVariants(pol.OIDCIssuer)}

CertCaseVariants(c) ==
    [SourceRepositoryOwnerURI : CaseVariants(c.SourceRepositoryOwnerURI),
     SourceRepositoryURI      : CaseVariants(c.SourceRepositoryURI),
     Issuer                   : CaseVariants(c.Issuer)]

\* the two issuer errors taken as one outcome
FailedField(e) == IF e.kind \in IssuerKinds THEN "Issuer" ELSE e.kind

\* what the code does guarantee: letter case never changes which field a
\* result fails on, only which of the two issuer errors reports it
CaseInsensitiveFailedField ==
    pc = "verified" =>
        \A k \in 1..Len(results) :
            \A pol \in PolicyCaseVariants(p), c \in CertCaseVariants(results[k]) :
                FailedField(verifyCertExtensions(pol, c))
                    = FailedField(IF Len(results) = 1
                                  THEN ret
                                  ELSE verifyCertExtensions(p, results[k]))

---------------------------------------------------------------------------
(* C4: every comparison of verifyCertExtensions is case-insensitive:       *)
(* changing only the letter case of an expected or an observed owner URI,  *)
(* repository URI or issuer never changes the outcome returned (success,   *)
(* owner mismatch, repository mismatch, issuer remediation error, generic  *)
(* issuer mismatch), the issuer's 'starts with expected + "/"' test        *)
(* included; and an empty policy field accepts any observed value.         *)
C4_CaseInsensitiveOutcome ==
    pc = "verified" =>
        \A k \in 1..Len(results) :
            /\ \A pol \in PolicyCaseVariants(p), c \in CertCaseVariants(results[k]) :
                  verifyCertExtensions(pol, c).kind
                      = IF Len(results) = 1
                        THEN ret.kind
                        ELSE verifyCertExtensions(p, results[k]).kind
            /\ p.Extensions.SourceRepositoryOwnerURI = Empty
                  => verifyCertExtensions(p, results[k]).kind
                         /= "SourceRepositoryOwnerURI"
            /\ p.Extensions.SourceRepositoryURI = Empty
                  => verifyCertExtensions(p, results[k]).kind /= "SourceRepositoryURI"
            /\ p.OIDCIssuer = Empty
                  => verifyCertExtensions(p, results[k]).kind \notin IssuerKinds

---------------------------------------------------------------------------
(* C5: VerifyCertExtensions on an empty list fails with the dedicated      *)
(* 'no attestations proccessing results' error, and no input makes it      *)
(* return verification.ErrNoAttestationsVerified.                          *)
C5_EmptyInputError ==
    pc = "verified" =>
        /\ results = <<>> => ret = ErrNoResults
        /\ ret /= ErrNoAttestationsVerified

\* the empty list was evaluated
C5_Witness ==
    /\ pc = "verified"
    /\ results = <<>>
    /\ ret = ErrNoResults

---------------------------------------------------------------------------
(* C2: newPolicy chooses the SAN mode in the order repo, workflow, raw,    *)
(* with no fallthrough.  With SignerRepo set, SANRegex is the repo-derived *)
(* regex, SAN is empty, the SignerWorkflow, SAN and SANRegex options are   *)
(* ignored and the build cannot fail; else with SignerWorkflow set,        *)
(* SANRegex is the workflow-derived regex, SAN is empty and the SAN and    *)
(* SANRegex options are ignored; else SAN and SANRegex are the caller's    *)
(* options verbatim.  SAN is non-empty only in the raw mode.               *)
C2_SANResolution ==
    /\ (pc /= "start" /\ opts.SignerRepo /= Empty) => pc /= "failed"
    /\ pc = "built" =>
        /\ IF opts.SignerRepo /= Empty
           THEN /\ p.Extensions.SANRegex
                       = expandToGitHubURL(opts.Tenant, opts.SignerRepo)
                /\ p.Extensions.SAN = Empty
                /\ \A w \in SampleWorkflows, n \in {Empty, <<"s">>},
                      x \in {Empty, <<"x">>} :
                      newPolicy([opts EXCEPT !.SignerWorkflow = w, !.SAN = n,
                                             !.SANRegex = x], TheArtifact)
                          = [policy |-> p, err |-> NoError]
           ELSE IF opts.SignerWorkflow /= Empty
           THEN /\ p.Extensions.SANRegex = validateSignerWorkflow(opts).val
                /\ StartsWith(p.Extensions.SANRegex,
                              <<"^","h","t","t","p","s",":","/","/">>)
                /\ p.Extensions.SAN = Empty
                /\ \A n \in {Empty, <<"s">>}, x \in {Empty, <<"x">>} :
                      newPolicy([opts EXCEPT !.SAN = n, !.SANRegex = x], TheArtifact)
                          = [policy |-> p, err |-> NoError]
           ELSE /\ p.Extensions.SANRegex = opts.SANRegex
                /\ p.Extensions.SAN = opts.SAN
        /\ p.Extensions.SAN /= Empty
              => (opts.SignerRepo = Empty /\ opts.SignerWorkflow = Empty)

\* repo mode with every lower-priority option set, the workflow one that
\* could not be validated
C2_Witness ==
    /\ pc = "built"
    /\ opts.SignerRepo /= Empty
    /\ opts.SignerWorkflow = <<"o","/","r","/","w">>
    /\ opts.Hostname = Empty
    /\ opts.SAN /= Empty
    /\ opts.SANRegex /= Empty
    /\ p.Extensions.SAN = Empty

---------------------------------------------------------------------------
(* The signer-workflow rule as a prefix test.                              *)

BeginsWithHostToken(s) ==
    \E i \in 1..Len(s), j \in 1..Len(s) :
        /\ i + 2 <= j
        /\ \A k \in 1..i : s[k] \in HostChars
        /\ s[i + 1] = "."
        /\ \A k \in (i + 2)..j : s[k] \in HostChars

ExpectedWorkflowRegex(o) ==
    IF BeginsWithHostToken(o.SignerWorkflow)
    THEN [val |-> <<"^","h","t","t","p","s",":","/","/">> \o o.SignerWorkflow,
          err |-> NoError]
    ELSE IF o.Hostname /= Empty
    THEN [val |-> <<"^","h","t","t","p","s",":","/","/">> \o o.Hostname
                      \o <<"/">> \o o.SignerWorkflow,
          err |-> NoError]
    ELSE [val |-> Empty, err |-> ErrUnknownHost]

\* what the code does guarantee: the prefix rule for every workflow without
\* a line feed, and the unknown host as the only failure of newPolicy
WorkflowNormalisationWithoutLineFeed ==
    /\ (pc = "validated" /\ "\n" \notin Range(opts.SignerWorkflow))
        => wf = ExpectedWorkflowRegex(opts)
    /\ pc = "failed" =>
        /\ opts.SignerRepo = Empty
        /\ opts.SignerWorkflow /= Empty
        /\ err = ErrUnknownHost
        /\ validateSignerWorkflow(opts).err = ErrUnknownHost
        /\ p = ZeroPolicy
    /\ (pc = "built" /\ opts.SignerRepo = Empty /\ opts.SignerWorkflow /= Empty
            /\ "\n" \notin Range(opts.SignerWorkflow))
        => /\ ExpectedWorkflowRegex(opts).err = NoError
           /\ p.Extensions.SANRegex = ExpectedWorkflowRegex(opts).val

---------------------------------------------------------------------------
(* C6: validateSignerWorkflow returns "^https://" + workflow, without      *)
(* reading Hostname, when the workflow begins with a host-shaped token     *)
(* (one or more of [a-zA-Z0-9-], a dot, one or more of [a-zA-Z0-9-]);      *)
(* otherwise "^https://" + Hostname + "/" + workflow when Hostname is set, *)
(* and otherwise the "unknown host" error.  newPolicy in workflow mode     *)
(* propagates that error with the zero Policy, and fails in no other way.  *)
C6_WorkflowNormalisation ==
    /\ pc = "validated" => wf = ExpectedWorkflowRegex(opts)
    /\ pc = "failed" =>
        /\ opts.SignerRepo = Empty
        /\ opts.SignerWorkflow /= Empty
        /\ err = ErrUnknownHost
        /\ ExpectedWorkflowRegex(opts).err = ErrUnknownHost
        /\ p = ZeroPolicy
    /\ (pc = "built" /\ opts.SignerRepo = Empty /\ opts.SignerWorkflow /= Empty)
        => /\ ExpectedWorkflowRegex(opts).err = NoError
           /\ p.Extensions.SANRegex = ExpectedWorkflowRegex(opts).val

---------------------------------------------------------------------------
---------------------------------------------------------------------------
(* C8: a Policy returned without error by newPolicy has RunnerEnvironment  *)
(* "github-hosted" when DenySelfHostedRunner is true and "*" when it is    *)
(* false, never empty, whatever the other options are; and                 *)
(* buildCertificateIdentityOption requires that same value.                *)
C8_RunnerEnvironment ==
    /\ Built =>
        /\ p.Extensions.RunnerEnvironment /= Empty
        /\ opts.DenySelfHostedRunner
              => p.Extensions.RunnerEnvironment
                     = <<"g","i","t","h","u","b","-","h","o","s","t","e","d">>
        /\ ~opts.DenySelfHostedRunner => p.Extensions.RunnerEnvironment = <<"*">>
    /\ pc \in {"identity", "verified"}
        => certExt.RunnerEnvironment = p.Extensions.RunnerEnvironment

\* self-hosted runners allowed, the wildcard handed to the verifier
C8_Witness ==
    /\ pc = "identity"
    /\ ~opts.DenySelfHostedRunner
    /\ certExt.RunnerEnvironment = <<"*">>

---------------------------------------------------------------------------
(* C9: BuildSourceRepoURI of a Policy built by newPolicy is                *)
(* "https://github.com/" + Repo for every Tenant when Repo is set (the     *)
(* tenant host never appears in it), and empty when Repo is empty.         *)
C9_BuildSourceRepoURI ==
    Built =>
        IF opts.Repo /= Empty
        THEN /\ p.Extensions.BuildSourceRepoURI
                    = <<"h","t","t","p","s",":","/","/","g","i","t","h","u","b",
                        ".","c","o","m","/">> \o opts.Repo
             /\ opts.Tenant /= Empty
                   => ~Contains(p.Extensions.BuildSourceRepoURI,
                                opts.Tenant \o <<".","g","h","e",".","c","o","m">>)
        ELSE p.Extensions.BuildSourceRepoURI = Empty

\* a repository together with a tenant
C9_Witness ==
    /\ pc = "built"
    /\ opts.Repo /= Empty
    /\ opts.Tenant /= Empty
    /\ p.Extensions.BuildSourceRepoURI = GitHubURL(opts.Repo)

---------------------------------------------------------------------------
\* the results rs, each with repository URI u
WithRepositoryURI(rs, u) ==
    [k \in 1..Len(rs) |-> [rs[k] EXCEPT !.SourceRepositoryURI = u]]

============================================================================
